---- MODULE Spec2Model ----
(***************************************************************************)
(* Model of main.py: a read-only query service over one table of food      *)
(* facility permits.  The table is loaded once (main.py:9-23); three       *)
(* handlers answer requests from the two loaded frames (main.py:43-119).   *)
(*                                                                         *)
(* Representation.                                                         *)
(*  - A text value is a sequence of one-character strings.                 *)
(*  - A float is NaN or Num(v) with v an integer number of degrees.        *)
(*  - A frame (pandas DataFrame) is a sequence of rows; a row is a         *)
(*    function from column names to values.  "locationid" is a passthrough *)
(*    column of the source table that numbers the rows in source order.    *)
(*  - pc, request and response are those of one request handled from     *)
(*    start to end; threads holds, for the worker threads of the thread    *)
(*    pool that runs the handlers, each thread's position, request,        *)
(*    locals and response.                                                 *)
(*  - Real arithmetic of haversine is carried out in fixed point with      *)
(*    Scale units per 1.0; the distance is returned in thousandths of a    *)
(*    mile.                                                                *)
(***************************************************************************)
EXTENDS Integers, Sequences, FiniteSets, TLC

VARIABLES df, df_with_coordinates, pc, request, response, threads

vars == <<df, df_with_coordinates, pc, request, response, threads>>

(***************************************************************************)
(* Bounds of the model.                                                    *)
(***************************************************************************)
\* longest query text (name, street) that is enumerated
MaxQueryLen == 2
\* most rows of a table in the specification of all three handlers
MaxRows == 2
\* most rows of a table in the specification of the nearest handler
MaxCoordRows == 6
\* the haversine inputs are the multiples of 30 (latitude) and 40 (longitude)
\* degrees up to this many steps either side of 0
MaxGridSteps == 2
\* worker threads of the specification of concurrent requests
MaxThreads == 2
\* most rows of a table in the specification of concurrent requests
MaxConcRows == 2

(***************************************************************************)
(* Text                                                                    *)
(***************************************************************************)
UpperCase == <<"A","B","C","D","E","F","G","H","I","J","K","L","M",
               "N","O","P","Q","R","S","T","U","V","W","X","Y","Z">>
LowerCase == <<"a","b","c","d","e","f","g","h","i","j","k","l","m",
               "n","o","p","q","r","s","t","u","v","w","x","y","z">>

\* str.lower() on one character
LowerChar(c) ==
    IF \E i \in 1..26 : UpperCase[i] = c
    THEN LowerCase[CHOOSE i \in 1..26 : UpperCase[i] = c]
    ELSE c

\* str.lower()
lower(s) == [i \in 1..Len(s) |-> LowerChar(s[i])]

(***************************************************************************)
(* Regular expressions.  Series.str.contains(pat, na=False) is called with *)
(* its default regex=True (main.py:56, main.py:76): pat is compiled with   *)
(* re.compile and each value is tested with pattern.search.  The patterns  *)
(* enumerated here are over QueryChars: letters match themselves, "."      *)
(* matches any character, and "(" opens a group that nothing closes, so a  *)
(* pattern holding it does not compile (re.error).                         *)
(***************************************************************************)
QueryChars == {"a", "A", "b", ".", "("}

re_compiles(pat) == \A k \in 1..Len(pat) : pat[k] # "("

re_search(pat, s) ==
    \E off \in 0..(Len(s) - Len(pat)) :
        \A k \in 1..Len(pat) : pat[k] = "." \/ s[off + k] = pat[k]

\* Series.str.contains(pat, na=False) on one value
str_contains(s, pat) == re_search(pat, s)

(***************************************************************************)
(* Floats                                                                  *)
(***************************************************************************)
NaN == [nan |-> TRUE]
Num(v) == [nan |-> FALSE, v |-> v]
isna(x) == x.nan

(***************************************************************************)
(* Fixed-point real arithmetic: the integer x stands for the real x/Scale. *)
(* Products are formed in three-digit limbs so that no intermediate value  *)
(* leaves the 32-bit integers of TLC.  Division truncates toward zero, so   *)
(* -f(x) and f(-x) agree for the odd functions.                            *)
(***************************************************************************)
Scale == 1000000
\* Scale = Limb * Limb
Limb == 1000
\* pi * Scale
Pi == 3141593
HalfPi == Pi \div 2

Abs(x) == IF x < 0 THEN -x ELSE x
Sign(x) == IF x < 0 THEN -1 ELSE 1
TDiv(a, b) == Sign(a) * (Abs(a) \div b)

\* floor(a*b / Scale) for a, b >= 0
MulAbs(a, b) ==
    LET ah == a \div Limb
        al == a % Limb
        bh == b \div Limb
        bl == b % Limb
    IN  ah * bh + ((ah * bl + al * bh + ((al * bl) \div Limb)) \div Limb)

\* (a*b) mod Scale for a, b >= 0
RemAbs(a, b) ==
    LET ah == a \div Limb
        al == a % Limb
        bh == b \div Limb
        bl == b % Limb
    IN  ((ah * bl + al * bh + ((al * bl) \div Limb)) % Limb) * Limb
          + ((al * bl) % Limb)

MulS(a, b) == Sign(a) * Sign(b) * MulAbs(Abs(a), Abs(b))

\* math.radians: degrees (an integer) to radians
radians(deg) == TDiv(deg * Pi, 180)

\* the Taylor series of sin and cos: term is the last term added, of degree k
RECURSIVE Series(_, _, _, _, _)
Series(x, term, k, last, total) ==
    IF k >= last THEN total
    ELSE LET next == -TDiv(MulS(MulS(term, x), x), (k + 1) * (k + 2))
         IN  Series(x, next, k + 2, last, total + next)

\* math.sin, math.cos for |x| <= pi
sin(x) == Series(x, x, 1, 15, x)
cos(x) == Series(x, Scale, 0, 16, Scale)

\* math.sqrt: the largest r with r*r <= a*Scale, for 0 <= a <= Scale
RECURSIVE SqrtSearch(_, _, _)
SqrtSearch(a, lo, hi) ==
    IF hi - lo <= 1 THEN lo
    ELSE LET mid == (lo + hi) \div 2
             q == MulAbs(mid, mid)
             fits == q < a \/ (q = a /\ RemAbs(mid, mid) = 0)
         IN  IF fits THEN SqrtSearch(a, mid, hi) ELSE SqrtSearch(a, lo, mid)

sqrt(a) == SqrtSearch(a, 0, Scale + 1)

\* math.asin on [0, 1]: the largest angle in [0, pi/2] whose sine is <= y
RECURSIVE AsinSearch(_, _, _)
AsinSearch(y, lo, hi) ==
    IF hi - lo <= 1 THEN lo
    ELSE LET mid == (lo + hi) \div 2
         IN  IF sin(mid) <= y THEN AsinSearch(y, mid, hi)
             ELSE AsinSearch(y, lo, mid)

asin(y) == AsinSearch(y, 0, HalfPi + 1)

(***************************************************************************)
(* haversine, main.py:25-41.  Arguments in whole degrees; the result is    *)
(* the distance in thousandths of a mile.                                  *)
(***************************************************************************)
R == 3956

haversine_swapped(lat1, lon1, lat2, lon2) ==
    LET rlon1 == radians(lon1)
        rlat1 == radians(lat1)
        rlon2 == radians(lon2)
        rlat2 == radians(lat2)
        long_dist == rlon2 - rlon1
        lat_dist == rlat2 - rlat1
        sLat == sin(TDiv(lat_dist, 2))
        sLon == sin(TDiv(long_dist, 2))
        \* cos(lat1) squared in place of cos(lat1) * cos(lat2)
        a == MulS(sLat, sLat)
               + MulS(MulS(cos(rlat1), cos(rlat1)), MulS(sLon, sLon))
        c == 2 * asin(sqrt(a))
    IN  (c \div Limb) * R + (((c % Limb) * R) \div Limb)

haversine(lat1, lon1, lat2, lon2) ==
    LET rlon1 == radians(lon1)
        rlat1 == radians(lat1)
        rlon2 == radians(lon2)
        rlat2 == radians(lat2)
        long_dist == rlon2 - rlon1
        lat_dist == rlat2 - rlat1
        sLat == sin(TDiv(lat_dist, 2))
        sLon == sin(TDiv(long_dist, 2))
        a == MulS(sLat, sLat)
               + MulS(MulS(cos(rlat1), cos(rlat2)), MulS(sLon, sLon))
        c == 2 * asin(sqrt(a))
    IN  (c \div Limb) * R + (((c % Limb) * R) \div Limb)

(***************************************************************************)
(* The source table.  A raw cell is a text, a number, or missing.          *)
(***************************************************************************)
Text(s) == [kind |-> "text", s |-> s]
Number(v) == [kind |-> "num", v |-> v]
Missing == [kind |-> "na"]

RawRow(applicant, status, address, latitude, longitude) ==
    [Applicant |-> applicant, Status |-> status, Address |-> address,
     Latitude |-> latitude, Longitude |-> longitude]

APPROVED == <<"A","P","P","R","O","V","E","D">>
approved == <<"a","p","p","r","o","v","e","d">>
REQUESTED == <<"R","E","Q","U","E","S","T","E","D">>

\* Rows of the tables given to all three handlers: mixed casing, punctuation,
\* missing text, and every kind of coordinate the loader tells apart.
RawPool ==
    { RawRow(Text(<<"A","b">>), Text(APPROVED), Text(<<"b","A">>),
             Number(40), Number(-120)),
      RawRow(Text(<<"a",".">>), Text(approved), Text(<<"A",".","a">>),
             Number(30), Number(-120)),
      RawRow(Text(<<"b","(">>), Text(REQUESTED), Text(<<"(","a">>),
             Number(0), Number(-120)),
      RawRow(Text(<<"a","a">>), Text(approved), Text(<<"a","b">>),
             Number(40), Number(0)),
      RawRow(Text(<<"A">>), Text(APPROVED), Text(<<"a">>),
             Missing, Number(-110)),
      RawRow(Text(<<"b","a">>), Text(REQUESTED), Text(<<"A","A">>),
             Number(40), Text(<<"a">>)),
      RawRow(Missing, Missing, Missing, Missing, Missing) }

\* Rows of the tables given to the nearest handler alone.
CoordPool ==
    { RawRow(Text(<<"A">>), Text(APPROVED), Text(<<"a">>),
             Number(40), Number(-120)),
      RawRow(Text(<<"b">>), Text(approved), Text(<<"b">>),
             Number(30), Number(-120)),
      RawRow(Text(<<"a">>), Text(REQUESTED), Text(<<"A">>),
             Number(40), Number(-110)) }

\* pd.read_csv: the rows in source order, "locationid" numbering them
Tables(pool, maxRows) ==
    UNION { { [i \in 1..n |->
                 [Applicant |-> t[i].Applicant, Status |-> t[i].Status,
                  Address |-> t[i].Address, Latitude |-> t[i].Latitude,
                  Longitude |-> t[i].Longitude, locationid |-> i]] :
              t \in [1..n -> pool] } : n \in 0..maxRows }

(***************************************************************************)
(* Dataset loader, main.py:9-23                                            *)
(***************************************************************************)
\* fillna("").astype(str) on one cell
fillna_astype_str(cell) == IF cell.kind = "text" THEN cell.s ELSE <<>>

\* pd.to_numeric(errors="coerce") on one cell
to_numeric(cell) == IF cell.kind = "num" THEN Num(cell.v) ELSE NaN

Load(raw) ==
    [i \in 1..Len(raw) |->
        [Applicant |-> fillna_astype_str(raw[i].Applicant),
         Status |-> fillna_astype_str(raw[i].Status),
         Address |-> fillna_astype_str(raw[i].Address),
         Latitude |-> to_numeric(raw[i].Latitude),
         Longitude |-> to_numeric(raw[i].Longitude),
         locationid |-> raw[i].locationid]]

\* the != 0.0 test on Latitude alone
HasCoordinates_latitude_only(row) ==
    /\ ~isna(row.Latitude) /\ ~isna(row.Longitude)
    /\ row.Latitude.v # 0

HasCoordinates(row) ==
    /\ ~isna(row.Latitude) /\ ~isna(row.Longitude)
    /\ row.Latitude.v # 0 /\ row.Longitude.v # 0

\* dropna(subset=[Latitude, Longitude]) and the != 0.0 mask
CoordFilter(frame) == SelectSeq(frame, HasCoordinates)

(***************************************************************************)
(* Responses                                                               *)
(***************************************************************************)
NoResponse == [status_code |-> 0, detail |-> "", records |-> <<>>]
Ok(records) == [status_code |-> 200, detail |-> "", records |-> records]
HTTPException(code, detail) ==
    [status_code |-> code, detail |-> detail, records |-> <<>>]
\* an exception no handler catches
ServerError == [status_code |-> 500, detail |-> "Internal Server Error",
                records |-> <<>>]

\* results.to_dict("records") followed by the  if not records  test
Respond(results, notFound) ==
    IF results = <<>> THEN HTTPException(404, notFound) ELSE Ok(results)

\* an optional query parameter
None == [none |-> TRUE]
Some(v) == [none |-> FALSE, v |-> v]
\* Python truthiness of Optional[str]
Truthy(opt) == ~opt.none /\ opt.v # <<>>

(***************************************************************************)
(* search_by_applicant, main.py:43-65                                      *)
(***************************************************************************)
ApplicantResults(frame, name, status) ==
    LET name_lowercase == lower(name)
        NameMatch(row) == str_contains(lower(row.Applicant), name_lowercase)
        byName == SelectSeq(frame, NameMatch)
        StatusMatch(row) == lower(row.Status) = lower(status.v)
    IN  IF Truthy(status) THEN SelectSeq(byName, StatusMatch) ELSE byName

search_by_applicant(name, status) ==
    /\ pc = "idle"
    /\ pc' = "done"
    /\ request' = [op |-> "applicant", name |-> name, status |-> status]
    /\ response' =
          IF ~re_compiles(lower(name)) THEN ServerError
          ELSE Respond(ApplicantResults(df, name, status),
                       "No matching applicant(s) found")
    /\ UNCHANGED <<df, df_with_coordinates, threads>>

(***************************************************************************)
(* search_by_street, main.py:67-82                                         *)
(***************************************************************************)
StreetResults(frame, street) ==
    LET street_lowercase == lower(street)
        Match(row) == str_contains(lower(row.Address), street_lowercase)
    IN  SelectSeq(frame, Match)

search_by_street(street) ==
    /\ pc = "idle"
    /\ pc' = "done"
    /\ request' = [op |-> "street", street |-> street]
    /\ response' =
          IF ~re_compiles(lower(street)) THEN ServerError
          ELSE Respond(StreetResults(df, street),
                       "No matching addresses found")
    /\ UNCHANGED <<df, df_with_coordinates, threads>>

(***************************************************************************)
(* get_nearest_food_trucks, main.py:84-119                                 *)
(***************************************************************************)
HEAD == 5

\* reference points (latitude, longitude) of the requests
RefPoints == { <<40, -120>>, <<30, -110>> }

\* coordinates found in the source tables
RowPoints ==
    { <<r.Latitude.v, r.Longitude.v>> :
        r \in { x \in RawPool \cup CoordPool :
                  x.Latitude.kind = "num" /\ x.Longitude.kind = "num" } }

\* haversine on every (reference point, row) pair, evaluated once:
\* the set of <<reference point, row point, distance>>
Distances ==
    { <<q[1], q[2], haversine(q[1][1], q[1][2], q[2][1], q[2][2])>> :
        q \in RefPoints \X RowPoints }

Distance(latitude, longitude, row) ==
    (CHOOSE d \in Distances :
        /\ d[1] = <<latitude, longitude>>
        /\ d[2] = <<row.Latitude.v, row.Longitude.v>>)[3]

\* A frame object: its rows, and whether it is the very object the global
\* df_with_coordinates names (a write to it is then a write to the global).
\* DataFrame.copy() returns an object of its own with the same rows.
copy_aliased(frame) == [rows |-> frame, shared |-> TRUE]

copy(frame) == [rows |-> frame, shared |-> FALSE]

\* results["distance"] = results.apply(lambda row: haversine(...), axis=1)
with_distance(frame, latitude, longitude) ==
    [i \in 1..Len(frame) |->
        ("distance" :> Distance(latitude, longitude, frame[i])) @@ frame[i]]

\* sort_values(by="distance") uses the default kind="quicksort", which is not
\* a stable sort: rows come out by ascending distance, and the order among
\* rows of equal distance is whatever the sort produces.  SortedOrders is
\* the set of orders (sequences of positions of frame) it can produce.
RECURSIVE SortedOrders(_, _)
SortedOrders(frame, left) ==
    IF left = {} THEN {<<>>}
    ELSE LET least == {i \in left :
                         \A j \in left : frame[i].distance <= frame[j].distance}
         IN  UNION { { <<i>> \o rest :
                         rest \in SortedOrders(frame, left \ {i}) } :
                     i \in least }

\* the frame with its rows in the given order
Reorder(frame, order) == [i \in 1..Len(order) |-> frame[order[i]]]

sort_values(frame) == SortedOrders(frame, DOMAIN frame)

\* head(n + 1)
head_one_more(frame, n) ==
    SubSeq(frame, 1, IF Len(frame) < n + 1 THEN Len(frame) ELSE n + 1)

\* DataFrame.head(n)
head(frame, n) == SubSeq(frame, 1, IF Len(frame) < n THEN Len(frame) ELSE n)

\* DataFrame.drop(columns=["distance"])
drop_distance(frame) ==
    [i \in 1..Len(frame) |->
        [c \in (DOMAIN frame[i]) \ {"distance"} |-> frame[i][c]]]

IsApproved(row) == lower(row.Status) = approved

\* main.py:100-102: the frame the distances are computed for.  Masking a
\* frame yields a new object.
Eligible_always_filtered(frame, all_statuses) ==
    [rows |-> SelectSeq(copy(frame).rows, IsApproved), shared |-> FALSE]

Eligible(frame, all_statuses) ==
    IF all_statuses THEN copy(frame)
    ELSE [rows |-> SelectSeq(copy(frame).rows, IsApproved), shared |-> FALSE]

get_nearest_food_trucks(latitude, longitude, all_statuses) ==
    /\ pc = "idle"
    /\ pc' = "done"
    /\ request' = [op |-> "nearest", latitude |-> latitude,
                   longitude |-> longitude, all_statuses |-> all_statuses]
    /\ LET eligible == Eligible(df_with_coordinates, all_statuses)
           \* results["distance"] = ... writes the column into the object
           results == with_distance(eligible.rows, latitude, longitude)
       IN  /\ df_with_coordinates' =
                 IF eligible.shared THEN results ELSE df_with_coordinates
           /\ \E order \in sort_values(results) :
                 response' =
                   Respond(drop_distance(head(Reorder(results, order), HEAD)),
                           "No food trucks found with valid coordinates")
    /\ UNCHANGED <<df, threads>>

(***************************************************************************)
(* The response is sent; the handler's locals are gone.                    *)
(***************************************************************************)
SendResponse ==
    /\ pc = "done"
    /\ pc' = "idle"
    /\ request' = [op |-> "none"]
    /\ response' = NoResponse
    /\ UNCHANGED <<df, df_with_coordinates, threads>>

(***************************************************************************)
(* Requests                                                                *)
(***************************************************************************)
RECURSIVE TextsOver(_, _)
TextsOver(chars, n) ==
    IF n = 0 THEN {<<>>}
    ELSE LET shorter == TextsOver(chars, n - 1)
         IN  shorter \cup { Append(t, c) : t \in shorter, c \in chars }

Queries == TextsOver(QueryChars, MaxQueryLen)

StatusParams ==
    { None, Some(<<>>), Some(approved), Some(APPROVED),
      Some(<<"a","p","p","r","o","v">>), Some(REQUESTED) }

(***************************************************************************)
(* Specification of the service seen one request at a time: load, then any *)
(* sequence of requests, each handled from start to end.  Requests that    *)
(* overlap on the thread pool are the subject of SpecConcurrent below.     *)
(***************************************************************************)
LoadedFrom(tables) ==
    /\ \E raw \in tables :
          /\ df = Load(raw)
          /\ df_with_coordinates = CoordFilter(Load(raw))
    /\ pc = "idle"
    /\ request = [op |-> "none"]
    /\ response = NoResponse
    /\ threads = <<>>

Init == LoadedFrom(Tables(RawPool, MaxRows))

Nearest ==
    \E p \in RefPoints, all_statuses \in BOOLEAN :
        get_nearest_food_trucks(p[1], p[2], all_statuses)

Next ==
    \/ \E name \in Queries, status \in StatusParams :
          search_by_applicant(name, status)
    \/ \E street \in Queries : search_by_street(street)
    \/ Nearest
    \/ SendResponse

Spec == Init /\ [][Next]_vars

(***************************************************************************)
(* Specification of the nearest handler over longer tables.                *)
(***************************************************************************)
InitNearest == LoadedFrom(Tables(CoordPool, MaxCoordRows))

NextNearest == Nearest \/ SendResponse

SpecNearest == InitNearest /\ [][NextNearest]_vars

(***************************************************************************)
(* Specification of haversine as a function: the calls of                  *)
(* test_haversine_zero_and_symmetry (test_main.py:165-175) on a grid.      *)
(***************************************************************************)
GridPoints ==
    { <<30 * i, 40 * j>> :
        i \in (-MaxGridSteps)..MaxGridSteps,
        j \in (-MaxGridSteps)..MaxGridSteps }

InitHaversine ==
    /\ df = <<>>
    /\ df_with_coordinates = <<>>
    /\ pc = "idle"
    /\ request = [op |-> "none"]
    /\ response = NoResponse
    /\ threads = <<>>

call_haversine(a, b) ==
    /\ pc = "idle"
    /\ pc' = "done"
    /\ request' = [op |-> "haversine", a |-> a, b |-> b]
    /\ response' = [d0 |-> haversine(a[1], a[2], a[1], a[2]),
                    d_ab |-> haversine(a[1], a[2], b[1], b[2]),
                    d_ba |-> haversine(b[1], b[2], a[1], a[2])]
    /\ UNCHANGED <<df, df_with_coordinates, threads>>

NextHaversine ==
    \/ \E a \in GridPoints, b \in GridPoints : call_haversine(a, b)
    \/ SendResponse

SpecHaversine == InitHaversine /\ [][NextHaversine]_vars

(***************************************************************************)
(* Concurrent requests.  The handlers are plain (not async) functions, so  *)
(* the framework runs each request on a worker thread of a pool and the    *)
(* statements of different requests interleave.  Each action below is one  *)
(* statement (or a run of statements on locals only) of a handler, run by  *)
(* thread t; the globals df and df_with_coordinates are shared.            *)
(***************************************************************************)
Threads == 1..MaxThreads

NoLocal == [mask |-> <<>>, rows |-> <<>>, shared |-> FALSE]
IdleThread == [pc |-> "idle", request |-> [op |-> "none"],
               local |-> NoLocal, response |-> NoResponse]

\* frame[mask]: the rows of frame at the positions where mask holds
BooleanIndex(frame, mask) ==
    LET Keep(i) == i <= Len(mask) /\ mask[i]
        RECURSIVE Pick(_)
        Pick(i) == IF i > Len(frame) THEN <<>>
                   ELSE (IF Keep(i) THEN <<frame[i]>> ELSE <<>>) \o Pick(i + 1)
    IN  Pick(1)

\* main.py:55-56 / 75-76: the mask  df[col].str.lower().str.contains(text)
t_contains_mask(t, op, col, text, req) ==
    /\ threads[t].pc = "idle"
    /\ threads' = [threads EXCEPT ![t] =
         IF ~re_compiles(lower(text))
         THEN [pc |-> "done", request |-> req, local |-> NoLocal,
               response |-> ServerError]
         ELSE [pc |-> "masked", request |-> req,
               local |-> [mask |-> [i \in 1..Len(df) |->
                                     str_contains(lower(df[i][col]),
                                                  lower(text))],
                          rows |-> <<>>, shared |-> FALSE],
               response |-> NoResponse]]
    /\ UNCHANGED <<df, df_with_coordinates, pc, request, response>>

t_applicant_mask(t, name, status) ==
    t_contains_mask(t, "applicant", "Applicant", name,
                    [op |-> "applicant", name |-> name, status |-> status])

t_street_mask(t, street) ==
    t_contains_mask(t, "street", "Address", street,
                    [op |-> "street", street |-> street])

\* main.py:56-60 / 76: results = df[mask], then the status mask on results
t_select(t) ==
    /\ threads[t].pc = "masked"
    /\ LET req == threads[t].request
           byMask == BooleanIndex(df, threads[t].local.mask)
           StatusMatch(row) == lower(row.Status) = lower(req.status.v)
           results ==
             IF req.op = "applicant" /\ Truthy(req.status)
             THEN SelectSeq(byMask, StatusMatch) ELSE byMask
       IN  threads' = [threads EXCEPT ![t].pc = "selected",
                                      ![t].local.rows = results]
    /\ UNCHANGED <<df, df_with_coordinates, pc, request, response>>

\* main.py:100: results = df_with_coordinates.copy()
t_nearest_copy(t, latitude, longitude, all_statuses) ==
    /\ threads[t].pc = "idle"
    /\ LET c == copy(df_with_coordinates)
       IN  threads' = [threads EXCEPT ![t] =
             [pc |-> "copied",
              request |-> [op |-> "nearest", latitude |-> latitude,
                           longitude |-> longitude,
                           all_statuses |-> all_statuses],
              local |-> [mask |-> <<>>, rows |-> c.rows, shared |-> c.shared],
              response |-> NoResponse]]
    /\ UNCHANGED <<df, df_with_coordinates, pc, request, response>>

\* main.py:101-102: the status mask yields a new frame object
t_nearest_filter(t) ==
    /\ threads[t].pc = "copied"
    /\ threads' = [threads EXCEPT ![t].pc = "filtered",
         ![t].local =
            IF threads[t].request.all_statuses THEN @
            ELSE [mask |-> <<>>, rows |-> SelectSeq(@.rows, IsApproved),
                  shared |-> FALSE]]
    /\ UNCHANGED <<df, df_with_coordinates, pc, request, response>>

\* main.py:105-108: the distance column is written into the object results
\* names; when that object is the global's, the global has the column too
t_nearest_distance(t) ==
    /\ threads[t].pc = "filtered"
    /\ LET req == threads[t].request
           results == with_distance(
                        IF threads[t].local.shared THEN df_with_coordinates
                        ELSE threads[t].local.rows,
                        req.latitude, req.longitude)
       IN  /\ threads' = [threads EXCEPT ![t].pc = "distanced",
                                         ![t].local.rows = results]
           /\ df_with_coordinates' =
                IF threads[t].local.shared THEN results
                ELSE df_with_coordinates
    /\ UNCHANGED <<df, pc, request, response>>

\* main.py:111-114: sort_values, head and drop each yield a new frame
t_nearest_sort(t) ==
    /\ threads[t].pc = "distanced"
    /\ LET results == IF threads[t].local.shared THEN df_with_coordinates
                      ELSE threads[t].local.rows
       IN  \E order \in sort_values(results) :
             threads' = [threads EXCEPT ![t].pc = "selected",
               ![t].local = [mask |-> <<>>, shared |-> FALSE,
                             rows |-> drop_distance(
                                        head(Reorder(results, order), HEAD))]]
    /\ UNCHANGED <<df, df_with_coordinates, pc, request, response>>

NotFoundDetail(op) ==
    CASE op = "applicant" -> "No matching applicant(s) found"
      [] op = "street" -> "No matching addresses found"
      [] op = "nearest" -> "No food trucks found with valid coordinates"

\* main.py:62-65, 78-82, 116-119: to_dict("records"), 404 when empty
t_return(t) ==
    /\ threads[t].pc = "selected"
    /\ threads' = [threads EXCEPT ![t].pc = "done", ![t].local = NoLocal,
         ![t].response = Respond(threads[t].local.rows,
                                 NotFoundDetail(threads[t].request.op))]
    /\ UNCHANGED <<df, df_with_coordinates, pc, request, response>>

\* the response is sent and the thread goes back to the pool
t_send(t) ==
    /\ threads[t].pc = "done"
    /\ threads' = [threads EXCEPT ![t] = IdleThread]
    /\ UNCHANGED <<df, df_with_coordinates, pc, request, response>>

\* the requests of the concurrent specification
ConcNames == { <<"a">>, <<"(">> }
ConcStatuses == { None, Some(approved) }
ConcStreets == { <<"a">>, <<".">> }
ConcRef == <<30, -110>>

InitConcurrent ==
    /\ \E raw \in Tables(CoordPool, MaxConcRows) :
          /\ df = Load(raw)
          /\ df_with_coordinates = CoordFilter(Load(raw))
    /\ pc = "idle"
    /\ request = [op |-> "none"]
    /\ response = NoResponse
    /\ threads = [t \in Threads |-> IdleThread]

NextConcurrent ==
    \E t \in Threads :
        \/ \E name \in ConcNames, status \in ConcStatuses :
              t_applicant_mask(t, name, status)
        \/ \E street \in ConcStreets : t_street_mask(t, street)
        \/ t_select(t)
        \/ \E all_statuses \in BOOLEAN :
              t_nearest_copy(t, ConcRef[1], ConcRef[2], all_statuses)
        \/ t_nearest_filter(t)
        \/ t_nearest_distance(t)
        \/ t_nearest_sort(t)
        \/ t_return(t)
        \/ t_send(t)

SpecConcurrent == InitConcurrent /\ [][NextConcurrent]_vars

(***************************************************************************)
(* Properties                                                              *)
(***************************************************************************)
Rows(frame) == { frame[i] : i \in DOMAIN frame }
Done(op) == pc = "done" /\ request.op = op
Min(a, b) == IF a < b THEN a ELSE b

\* sub occurs in s as a literal substring
IsSubstring(sub, s) ==
    \E off \in 0..(Len(s) - Len(sub)) :
        \A k \in 1..Len(sub) : s[off + k] = sub[k]

\* Applicant, lower-cased, contains name lower-cased as a literal substring
ContainsName(row, name) == IsSubstring(lower(name), lower(row.Applicant))
ContainsStreet(row, street) == IsSubstring(lower(street), lower(row.Address))

\* a row with both coordinates present and both different from 0.0
ValidCoordinates(row) ==
    /\ row.Latitude # NaN /\ row.Longitude # NaN
    /\ row.Latitude # Num(0) /\ row.Longitude # Num(0)

\* the distance of a row from the reference point of the request
Dist(row) == Distance(request.latitude, request.longitude, row)

\* C1: a successful search_by_applicant without a status filter, for a
\* non-empty name, returns exactly the rows of df whose Applicant contains
\* the name as a literal substring (case-insensitively), in source order.
C1_ApplicantLiteralSubstring ==
    (/\ Done("applicant")
     /\ request.name # <<>>
     /\ request.status = None
     /\ response.status_code = 200)
    => LET Match(row) == ContainsName(row, request.name)
       IN  response.records = SelectSeq(df, Match)

\* C2: for a non-empty street that is, in some casing, a substring of a
\* row's Address, search_by_street succeeds and returns that row; and every
\* returned row's Address contains the street (case-insensitively).
C2_StreetLiteralSubstring ==
    (Done("street") /\ request.street # <<>>)
    => /\ \A row \in Rows(df) :
             ContainsStreet(row, request.street)
             => (response.status_code = 200 /\ row \in Rows(response.records))
       /\ \A row \in Rows(response.records) :
             ContainsStreet(row, request.street)

\* C3: whenever status is provided to search_by_applicant, every returned
\* row's Status equals it (case-insensitively, whole string), and every
\* row that matches the name and has such a Status is returned.
C3_StatusFilterWheneverProvided ==
    (/\ Done("applicant")
     /\ request.name # <<>>
     /\ request.status # None
     /\ response.status_code \in {200, 404})
    => /\ \A row \in Rows(response.records) :
             lower(row.Status) = lower(request.status.v)
       /\ \A row \in Rows(df) :
             (/\ str_contains(lower(row.Applicant), lower(request.name))
              /\ lower(row.Status) = lower(request.status.v))
             => row \in Rows(response.records)

\* C4: every request to one of the three handlers ends either in 200 with a
\* non-empty row list or in 404 with the handler's own message and no rows.
NotFoundMessage(op) ==
    CASE op = "applicant" -> "No matching applicant(s) found"
      [] op = "street" -> "No matching addresses found"
      [] op = "nearest" -> "No food trucks found with valid coordinates"

C4_TwoOutcomes ==
    (pc = "done" /\ request.op \in {"applicant", "street", "nearest"})
    => \/ response.status_code = 200 /\ response.records # <<>>
       \/ /\ response.status_code = 404
          /\ response.detail = NotFoundMessage(request.op)
          /\ response.records = <<>>

\* C5: no row whose Latitude or Longitude is missing or 0.0 is returned by
\* get_nearest_food_trucks; every returned row is a row of
\* df_with_coordinates, which is exactly the rows of df with both
\* coordinates present and different from 0.0.
C5_NearestOnlyValidCoordinates ==
    /\ df_with_coordinates = SelectSeq(df, ValidCoordinates)
    /\ Done("nearest")
       => \A row \in Rows(response.records) :
            ValidCoordinates(row) /\ row \in Rows(df)

C5_Witness ==
    /\ Done("nearest")
    /\ response.status_code = 200
    /\ \E row \in Rows(df) : row.Latitude # NaN /\ row.Longitude = Num(0)
    /\ Len(response.records) < Len(df)

\* the rows are min(5, |pool|) different rows of pool, none of the rows of
\* pool left out being strictly closer than a returned one
NearestOf(records, pool) ==
    /\ Len(records) = Min(5, Len(pool))
    /\ Cardinality(Rows(records)) = Len(records)
    /\ Rows(records) \subseteq Rows(pool)
    /\ \A out \in Rows(pool) \ Rows(records) :
         \A in \in Rows(records) : Dist(out) >= Dist(in)

\* C6: with all_statuses false get_nearest_food_trucks returns only rows
\* whose Status lower-cased is "approved"; with all_statuses true the result
\* is the nearest rows of all the rows with valid coordinates, whatever
\* their status.
C6_NearestStatusFilter ==
    Done("nearest")
    => IF request.all_statuses
       THEN NearestOf(response.records, SelectSeq(df, ValidCoordinates))
       ELSE \A row \in Rows(response.records) : lower(row.Status) = approved

C6_Witness ==
    /\ Done("nearest")
    /\ request.all_statuses
    /\ \E row \in Rows(response.records) : lower(row.Status) # approved
    /\ \E row \in Rows(response.records) : row.Status = approved
    /\ Len(df) > 5

\* the rows the nearest handler chooses from
EligibleRows ==
    LET Wanted(row) ==
          /\ ValidCoordinates(row)
          /\ request.all_statuses \/ lower(row.Status) = approved
    IN  SelectSeq(df, Wanted)

\* C7: a successful get_nearest_food_trucks result has exactly min(5, n)
\* rows, n the number of eligible rows, in non-decreasing distance; no
\* eligible row left out is strictly closer than a returned one; and no
\* returned row has a "distance" field.
C7_NearestFiveSorted ==
    (Done("nearest") /\ response.status_code = 200)
    => /\ NearestOf(response.records, EligibleRows)
       /\ \A i \in 1..(Len(response.records) - 1) :
             Dist(response.records[i]) <= Dist(response.records[i + 1])
       /\ \A row \in Rows(response.records) : "distance" \notin DOMAIN row

C7_Witness ==
    /\ Done("nearest")
    /\ response.status_code = 200
    /\ Len(response.records) = 5
    /\ Len(EligibleRows) > 5
    /\ Dist(response.records[1]) < Dist(response.records[5])
    /\ \E out \in Rows(EligibleRows) \ Rows(response.records) :
          Dist(out) > Dist(response.records[5])

\* C8: eligible rows at the same distance come out in source order, and
\* when the cut after the fifth row falls inside a group of rows at the same
\* distance, the rows earlier in the source are the ones kept.
C8_StableOnTies ==
    (Done("nearest") /\ response.status_code = 200)
    => /\ \A i, j \in DOMAIN response.records :
             (/\ i < j
              /\ Dist(response.records[i]) = Dist(response.records[j]))
             => response.records[i].locationid < response.records[j].locationid
       /\ \A out \in Rows(EligibleRows) \ Rows(response.records) :
             \A in \in Rows(response.records) :
               Dist(out) = Dist(in) => in.locationid < out.locationid

\* the responses the handler gives to a request when it runs alone on the
\* loaded frames
ResponsesAlone(req) ==
    CASE req.op = "applicant" ->
           { IF ~re_compiles(lower(req.name)) THEN ServerError
             ELSE Respond(ApplicantResults(df, req.name, req.status),
                          "No matching applicant(s) found") }
      [] req.op = "street" ->
           { IF ~re_compiles(lower(req.street)) THEN ServerError
             ELSE Respond(StreetResults(df, req.street),
                          "No matching addresses found") }
      [] req.op = "nearest" ->
           LET results ==
                 with_distance(SelectSeq(df_with_coordinates,
                                 LAMBDA row : req.all_statuses
                                                \/ IsApproved(row)),
                               req.latitude, req.longitude)
           IN  { Respond(drop_distance(head(Reorder(results, order), HEAD)),
                         "No food trucks found with valid coordinates") :
                   order \in sort_values(results) }

\* C9: under any interleaving of the statements of concurrent requests, no
\* step changes df or df_with_coordinates (so the distance column never
\* appears in them, not even between two statements of a handler), and the
\* response of every finished request is one the handler gives to that
\* request alone, whatever the other threads are doing or have done.
C9_FramesNeverChange ==
    /\ [][df' = df /\ df_with_coordinates' = df_with_coordinates]_vars
    /\ [](\A t \in Threads :
            threads[t].pc = "done"
            => threads[t].response \in ResponsesAlone(threads[t].request))

\* two requests overlap: one nearest request has finished with rows while
\* another, started on the same frames, has written its distance column and
\* not yet returned
C9_Witness ==
    \E t1, t2 \in Threads :
        /\ t1 # t2
        /\ threads[t1].pc = "done"
        /\ threads[t1].request.op = "nearest"
        /\ threads[t1].request.all_statuses
        /\ threads[t1].response.status_code = 200
        /\ threads[t2].pc = "distanced"
        /\ threads[t2].request.all_statuses
        /\ threads[t2].local.rows # <<>>
        /\ \A row \in Rows(threads[t2].local.rows) : "distance" \in DOMAIN row
        /\ \A row \in Rows(df_with_coordinates) : "distance" \notin DOMAIN row

\* C10: haversine of a point and itself is exactly 0, and haversine(a, b)
\* equals haversine(b, a); along a meridian the distance is the angle in
\* radians times 3956 miles (here to one part in a thousand).
C10_HaversineZeroAndSymmetric ==
    Done("haversine")
    => /\ response.d0 = 0
       /\ response.d_ab = response.d_ba
       /\ request.a[2] = request.b[2]
          => LET angle == Abs(radians(request.b[1]) - radians(request.a[1]))
                 arc == (angle \div 1000) * 3956
                          + (((angle % 1000) * 3956) \div 1000)
             IN  Abs(response.d_ab - arc) * 1000 <= arc

C10_Witness ==
    /\ Done("haversine")
    /\ request.a[1] # request.b[1]
    /\ request.a[2] # request.b[2]
    /\ response.d_ab > 0
    /\ response.d0 = 0

====
